---------------------------- MODULE Spec2Model ----------------------------
(***************************************************************************)
(* XREPORT notebooks: data_validation.ipynb (validation flow) and          *)
(* model_evaluation.ipynb (evaluation flow), as a state machine.           *)
(*                                                                         *)
(* A kernel session runs one notebook top to bottom ("Run All"): the cells *)
(* execute in order, one statement after the other, and the first raised   *)
(* exception ends the run.  The validation notebook is run twice (Runs),   *)
(* each run with a configuration of its own, so that what two independent  *)
(* runs produce can be compared.                                           *)
(*                                                                         *)
(* Library calls are modelled by their documented behaviour:               *)
(*   pandas.read_csv       a missing file raises; an empty field is NaN    *)
(*   DataFrame.sample      n > len raises; otherwise the first n entries   *)
(*                         of a permutation drawn from RandomState(seed)   *)
(*   str.split()           maximal runs of non-whitespace characters       *)
(* The generator behind RandomState is abstracted to a small linear        *)
(* congruential generator driving the same Fisher-Yates shuffle.           *)
(***************************************************************************)
EXTENDS Integers, Sequences, FiniteSets, TLC

VARIABLES fs, notebook, cnf, pc, failedAt, executed, console, ns

vars == <<fs, notebook, cnf, pc, failedAt, executed, console, ns>>

\* ------------------------------------------------------------------ bounds
MaxRows == 3
MaxTrainSamples == 1
MaxTestSamples == 1
MaxBatchSize == 2
MaxEpochs == 2
RngModulus == 16

Runs == {1, 2}
Seeds == {0, 1}
Chars == {"a", "b", " "}

\* An optional value: the empty sequence, or a sequence holding the value.
None == <<>>
Some(v) == <<v>>
IsSome(o) == Len(o) = 1
Get(o) == o[1]

\* A cell of a DataFrame text column: a string (a sequence of characters) or NaN.
NaN == [isna |-> TRUE, str |-> <<>>]
Str(s) == [isna |-> FALSE, str |-> s]

\* ------------------------------------------------------------ file system
DATA_PATH == "DATA_PATH"
IMG_DATA_PATH == "IMG_DATA_PATH"
CHECKPOINT_PATH == "CHECKPOINT_PATH"

join(dir, name) == dir \o <<name>>

DatasetFile == join(<<DATA_PATH>>, "XREP_dataset.csv")
ImageDir == <<IMG_DATA_PATH>>
CheckpointFolder == join(<<CHECKPOINT_PATH>>, "XREP_checkpoint")
WeightsFile == join(CheckpointFolder, "model")
ParametersFile == join(CheckpointFolder, "model_parameters.json")
PreprocessingFolder == join(CheckpointFolder, "preprocessing")
TrainFile == join(PreprocessingFolder, "XREP_train.csv")
TestFile == join(PreprocessingFolder, "XREP_test.csv")

Paths == {DatasetFile, ImageDir, WeightsFile, ParametersFile, TrainFile, TestFile}

\* The raw text fields a CSV line may hold: empty, only whitespace, one word,
\* two words, and words with leading, trailing and repeated whitespace.
TextFields ==
    { <<>>,
      <<" ">>,
      <<"a">>,
      <<"b", " ", "a">>,
      <<" ", "a", "b", " ", " ", "b", " ">> }

\* The lines of a CSV file (header left out): record k names image k.
CsvFiles(fields) ==
    UNION { { [k \in 1..n |-> [id |-> k, text |-> t[k]]] : t \in [1..n -> fields] }
            : n \in 0..MaxRows }

\* ---------------------------------------------------------------- pandas
\* read_csv's parse of one field: the empty string is a missing value.
ParseField(raw) == IF raw = <<>> THEN NaN ELSE Str(raw)

\* pd.read_csv(file_loc, sep=';'): one DataFrame row per line, RangeIndex labels.
read_csv(lines) ==
    [k \in 1..Len(lines) |->
        [index |-> k - 1, id |-> lines[k].id, text |-> ParseField(lines[k].text)]]

\* find_images_path(IMG_DATA_PATH, dataset): every row gets the path of its image.
find_images_path(images, df) ==
    [k \in 1..Len(df) |->
        [index |-> df[k].index, id |-> df[k].id, text |-> df[k].text,
         path |-> IF df[k].id \in images THEN Some(join(ImageDir, df[k].id)) ELSE None]]

\* The generator of RandomState: one step, and the state a seed starts it in.
NextRandom(s) == (5 * s + 3) % RngModulus
SeedState(seed) == seed % RngModulus

Swap(p, i, j) == [p EXCEPT ![i] = p[j], ![j] = p[i]]

\* RandomState.permutation: Fisher-Yates from the last position down.
RECURSIVE Shuffle(_, _, _)
Shuffle(p, i, s) ==
    IF i < 2 THEN p
    ELSE LET s2 == NextRandom(s)
             j == (s2 % i) + 1
         IN Shuffle(Swap(p, i, j), i - 1, s2)

Permutation(len, s) == Shuffle([k \in 1..len |-> k], len, s)

\* random_state.choice(len, size=n, replace=True): n independent draws.
RECURSIVE DrawsWithReplacement(_, _, _)
DrawsWithReplacement(len, n, s) ==
    IF n = 0 \/ len = 0 THEN <<>>
    ELSE LET s2 == NextRandom(s)
         IN <<(s2 % len) + 1>> \o DrawsWithReplacement(len, n - 1, s2)

ChoiceWithReplacement(len, n, s) == Some(DrawsWithReplacement(len, n, s))

\* random_state.choice(len, size=n, replace=False): None stands for the
\* ValueError raised when n is larger than the population.
Choice(len, n, s) ==
    IF n > len THEN None
    ELSE Some(SubSeq(Permutation(len, s), 1, n))

\* DataFrame.sample(n=n, replace=True, ...): draws may repeat, any n is served.
sample_with_replacement(df, n, seed) ==
    LET locs == Get(ChoiceWithReplacement(Len(df), n, SeedState(seed)))
    IN Some([k \in 1..Len(locs) |-> df[locs[k]]])

\* DataFrame.sample(n=n, random_state=seed): the rows at the chosen positions.
sample(df, n, seed) ==
    LET locs == Choice(Len(df), n, SeedState(seed))
    IN IF IsSome(locs)
       THEN Some([k \in 1..Len(Get(locs)) |-> df[Get(locs)[k]]])
       ELSE None

\* ------------------------------------------------------------- str.split
IsSpace(c) == c = " "

\* x.split(): scan left to right, closing a word at each whitespace character.
RECURSIVE SplitFrom(_, _, _, _)
SplitFrom(s, i, cur, acc) ==
    IF i > Len(s) THEN (IF cur = <<>> THEN acc ELSE Append(acc, cur))
    ELSE IF IsSpace(s[i])
         THEN SplitFrom(s, i + 1, <<>>, IF cur = <<>> THEN acc ELSE Append(acc, cur))
         ELSE SplitFrom(s, i + 1, Append(cur, s[i]), acc)

split(s) == SplitFrom(s, 1, <<>>, <<>>)

\* The sublists taken last to first.
RECURSIVE FlattenReversed(_)
FlattenReversed(lists) ==
    IF lists = <<>> THEN <<>> ELSE FlattenReversed(Tail(lists)) \o Head(lists)

\* [item for sublist in words_list for item in sublist]
RECURSIVE Flatten(_)
Flatten(lists) ==
    IF lists = <<>> THEN <<>> ELSE Head(lists) \o Flatten(Tail(lists))

\* ------------------------------------------------------- XREPORT library
\* Inference.load_pretrained_model(CHECKPOINT_PATH): the checkpoint's model and
\* its parameters record, or None when the checkpoint cannot be read.
load_pretrained_model(files) ==
    IF IsSome(files[WeightsFile]) /\ IsSome(files[ParametersFile])
    THEN Some([model |-> Get(files[WeightsFile]),
               parameters |-> Get(files[ParametersFile]),
               folder_path |-> CheckpointFolder])
    ELSE None

\* DataGenerator(data, batch_size, img_shape, shuffle, augmentation): keeps the
\* frame it is given and the batch size; the frame is not changed.
DataGenerator(data, batch_size) == [data |-> data, batch_size |-> batch_size]

\* TensorDataSet.create_tf_dataset(generator): the dataset wrapping a generator.
create_tf_dataset(generator) == [generator |-> generator]

\* ------------------------------------------------------------- notebooks
\* The statements of data_validation.ipynb, in cell order.
ValidationSteps ==
    << "read_csv", "find_images_path", "sample", "text_analysis", "pixel_intensity" >>

\* The statements of model_evaluation.ipynb with two steps exchanged.
EvaluationStepsGeneratorEarly ==
    << "load_pretrained_model", "model_summary", "read_train_csv", "train_generator",
       "read_test_csv", "ModelTraining", "test_generator", "TensorDataSet",
       "train_dataset", "test_dataset", "report" >>

\* The statements of model_evaluation.ipynb, in cell order.
EvaluationSteps ==
    << "load_pretrained_model", "model_summary", "read_train_csv", "read_test_csv",
       "ModelTraining", "train_generator", "test_generator", "TensorDataSet",
       "train_dataset", "test_dataset", "report" >>

StepsOf(nb) == IF nb = "validation" THEN ValidationSteps ELSE EvaluationSteps

IndexOf(seq, x) == CHOOSE i \in 1..Len(seq) : seq[i] = x

\* Sequential execution: the statement after `step`, or the end of the notebook.
NextStep(nb, step) ==
    LET steps == StepsOf(nb)
        i == IndexOf(steps, step)
    IN IF i < Len(steps) THEN steps[i + 1] ELSE "done"

Ended(r) == pc[r] \in {"done", "failed"}

\* The configuration module's values, as one run reads them.
Configurations(nb) ==
    IF nb = "validation"
    THEN [SEED : Seeds, TRAIN_SAMPLES : 0..MaxTrainSamples,
          TEST_SAMPLES : 0..MaxTestSamples, BATCH_SIZE : {1}, EPOCHS : {1}]
    ELSE [SEED : {0}, TRAIN_SAMPLES : {0}, TEST_SAMPLES : {0},
          BATCH_SIZE : 1..MaxBatchSize, EPOCHS : 1..MaxEpochs]

DefaultConfiguration ==
    [SEED |-> 0, TRAIN_SAMPLES |-> 0, TEST_SAMPLES |-> 0, BATCH_SIZE |-> 1, EPOCHS |-> 1]

\* The names a notebook binds; none is bound when the kernel starts.
EmptyNamespace ==
    [dataset |-> None, total_samples |-> None, subset |-> None, total_text |-> None,
     words_list |-> None, validator |-> None,
     model |-> None, parameters |-> None, model_path |-> None,
     train_data |-> None, test_data |-> None, trainer |-> None,
     train_generator |-> None, test_generator |-> None, datamaker |-> None,
     train_dataset |-> None, test_dataset |-> None,
     num_train_samples |-> None, num_test_samples |-> None]

\* --------------------------------------------------------- initial state
MkFs(ds, img, w, p, tr, te) ==
    (DatasetFile :> ds) @@ (ImageDir :> img) @@ (WeightsFile :> w)
    @@ (ParametersFile :> p) @@ (TrainFile :> tr) @@ (TestFile :> te)

ParameterRecords == [batch_size : 1..MaxBatchSize, epochs : 1..MaxEpochs]

OptionalFiles(files) == {None} \cup {Some(f) : f \in files}

\* What the validation notebook may find on disk: any dataset file or none, and
\* the images of all records but the last; the checkpoint plays no part.
ValidationFileSystems ==
    { MkFs(ds, Some(1..(MaxRows - 1)), Some("weights"),
           Some([batch_size |-> 1, epochs |-> 1]), Some(<<>>), Some(<<>>)) :
        ds \in OptionalFiles(CsvFiles(TextFields)) }

\* What the evaluation notebook may find on disk: no checkpoint, or a checkpoint
\* whose preprocessing files may each be missing.
EvaluationFileSystems ==
    { MkFs(Some(<<>>), Some({}), None, None, None, None) }
    \cup
    { MkFs(Some(<<>>), Some({}), Some("weights"), Some(p), tr, te) :
        p \in ParameterRecords,
        tr \in OptionalFiles(CsvFiles({<<"a">>})),
        te \in OptionalFiles(CsvFiles({<<"a">>})) }

Init ==
    /\ notebook \in {"validation", "evaluation"}
    /\ fs \in (IF notebook = "validation" THEN ValidationFileSystems
                                         ELSE EvaluationFileSystems)
    /\ cnf = [r \in Runs |-> DefaultConfiguration]
    /\ pc = [r \in Runs |-> "idle"]
    /\ failedAt = [r \in Runs |-> "none"]
    /\ executed = [r \in Runs |-> <<>>]
    /\ console = [r \in Runs |-> <<>>]
    /\ ns = [r \in Runs |-> EmptyNamespace]

\* ------------------------------------------------------- step mechanics
\* A hypothetical report cell that saves the configuration beside the model.
files_written_saving(r, step) ==
    IF step = "report"
    THEN { [path |-> ParametersFile,
            content |-> Some([batch_size |-> cnf[r].BATCH_SIZE,
                              epochs |-> cnf[r].EPOCHS])] }
    ELSE {}

\* The files a statement writes: no statement of either notebook writes one.
files_written(r, step) == {}

WriteAll(files, writes) ==
    [p \in Paths |->
        IF \E w \in writes : w.path = p
        THEN (CHOOSE w \in writes : w.path = p).content
        ELSE files[p]]

\* The statement `step` of run r completes: its bindings and output take
\* effect and the next statement is up.
Complete(r, step, bindings, output) ==
    /\ pc[r] = step
    /\ pc' = [pc EXCEPT ![r] = NextStep(notebook, step)]
    /\ executed' = [executed EXCEPT ![r] = Append(@, step)]
    /\ ns' = [ns EXCEPT ![r] = bindings]
    /\ console' = [console EXCEPT ![r] = @ \o output]
    /\ fs' = WriteAll(fs, files_written(r, step))
    /\ UNCHANGED <<notebook, cnf, failedAt>>

\* A hypothetical cell that catches the exception and goes on.
RaiseSwallowed(r, step, bindings) ==
    /\ pc[r] = step
    /\ pc' = [pc EXCEPT ![r] = NextStep(notebook, step)]
    /\ failedAt' = [failedAt EXCEPT ![r] = step]
    /\ executed' = [executed EXCEPT ![r] = Append(@, step)]
    /\ ns' = [ns EXCEPT ![r] = bindings]
    /\ UNCHANGED <<fs, notebook, cnf, console>>

\* The statement `step` of run r raises: no handler surrounds it, the bindings
\* made before the raise stay and the run is over.
Raise(r, step, bindings) ==
    /\ pc[r] = step
    /\ pc' = [pc EXCEPT ![r] = "failed"]
    /\ failedAt' = [failedAt EXCEPT ![r] = step]
    /\ executed' = [executed EXCEPT ![r] = Append(@, step)]
    /\ ns' = [ns EXCEPT ![r] = bindings]
    /\ UNCHANGED <<fs, notebook, cnf, console>>

\* A kernel is started on the notebook and "Run All" begins.  The evaluation
\* notebook is run once; the second validation run starts after the first ended.
StartRun(r) ==
    /\ pc[r] = "idle"
    /\ IF r = 1 THEN TRUE ELSE notebook = "validation" /\ Ended(r - 1)
    /\ \E c \in Configurations(notebook) : cnf' = [cnf EXCEPT ![r] = c]
    /\ pc' = [pc EXCEPT ![r] = StepsOf(notebook)[1]]
    /\ UNCHANGED <<fs, notebook, failedAt, executed, console, ns>>

\* ------------------------------------------- data_validation.ipynb cells
\* dataset = pd.read_csv(file_loc, encoding='utf-8', sep=';', low_memory=False)
ReadDatasetCsv(r) ==
    LET file == fs[join(<<DATA_PATH>>, "XREP_dataset.csv")]
    IN IF IsSome(file)
       THEN Complete(r, "read_csv",
                     [ns[r] EXCEPT !.dataset = Some(read_csv(Get(file)))], <<>>)
       ELSE Raise(r, "read_csv", ns[r])

\* dataset = find_images_path(IMG_DATA_PATH, dataset)
FindImagesPath(r) ==
    Complete(r, "find_images_path",
             [ns[r] EXCEPT !.dataset =
                 Some(find_images_path(Get(fs[<<IMG_DATA_PATH>>]), Get(ns[r].dataset)))],
             <<>>)

\* A generator seeded afresh by each run instead of by the configured seed.
random_state_unseeded(r) == r

\* random_state=cnf.SEED
random_state(r) == cnf[r].SEED

\* total_samples = cnf.TRAIN_SAMPLES + cnf.TEST_SAMPLES
\* subset = dataset.sample(n=total_samples, random_state=cnf.SEED)
SampleSubset(r) ==
    LET total_samples == cnf[r].TRAIN_SAMPLES + cnf[r].TEST_SAMPLES
        subset == sample(Get(ns[r].dataset), total_samples, random_state(r))
        bound == [ns[r] EXCEPT !.total_samples = Some(total_samples)]
    IN /\ pc[r] = "sample"
       /\ IF IsSome(subset)
          THEN Complete(r, "sample", [bound EXCEPT !.subset = subset], <<>>)
          ELSE Raise(r, "sample", bound)

\* The text column of the sampled subset instead of the whole dataset.
total_text_of_subset(r) ==
    [k \in 1..Len(Get(ns[r].subset)) |-> Get(ns[r].subset)[k].text]

\* total_text = dataset['text'].to_list()
total_text(r) ==
    [k \in 1..Len(Get(ns[r].dataset)) |-> Get(ns[r].dataset)[k].text]

\* words_list = [x.split() for x in total_text]; flattened; printed.
\* A NaN cell is a float and has no split: AttributeError.
TextAnalysis(r) ==
    LET texts == total_text(r)
        bound == [ns[r] EXCEPT !.total_text = Some(texts)]
    IN /\ pc[r] = "text_analysis"
       /\ IF \E k \in 1..Len(texts) : texts[k].isna
          THEN Raise(r, "text_analysis", bound)
          ELSE LET words_list == Flatten([k \in 1..Len(texts) |-> split(texts[k].str)])
               IN Complete(r, "text_analysis",
                           [bound EXCEPT !.words_list = Some(words_list)],
                           <<[print |-> "words_list", value |-> words_list]>>)

\* validator = DataValidation(); print(f'Loading pictures ...')
PixelIntensity(r) ==
    Complete(r, "pixel_intensity",
             [ns[r] EXCEPT !.validator = Some("DataValidation")],
             <<[print |-> "loading_pictures", value |-> <<>>]>>)

\* ------------------------------------------ model_evaluation.ipynb cells
\* inference = Inference(cnf.seed)
\* model, parameters = inference.load_pretrained_model(CHECKPOINT_PATH)
\* model_path = inference.folder_path
LoadPretrainedModel(r) ==
    LET loaded == load_pretrained_model(fs)
    IN IF IsSome(loaded)
       THEN Complete(r, "load_pretrained_model",
                     [ns[r] EXCEPT !.model = Some(Get(loaded).model),
                                   !.parameters = Some(Get(loaded).parameters),
                                   !.model_path = Some(Get(loaded).folder_path)],
                     <<>>)
       ELSE Raise(r, "load_pretrained_model", ns[r])

\* model.summary()
ModelSummary(r) ==
    Complete(r, "model_summary", ns[r],
             <<[print |-> "model_summary", value |-> Get(ns[r].model)]>>)

\* preprocessing_path = os.path.join(model_path, 'preprocessing')
preprocessing_path(r) == join(Get(ns[r].model_path), "preprocessing")

\* file_loc = os.path.join(preprocessing_path, 'XREP_train.csv')
\* train_data = pd.read_csv(file_loc, encoding='utf-8', sep=';', low_memory=False)
ReadTrainCsv(r) ==
    /\ pc[r] = "read_train_csv"
    /\ LET file == fs[join(preprocessing_path(r), "XREP_train.csv")]
       IN IF IsSome(file)
          THEN Complete(r, "read_train_csv",
                        [ns[r] EXCEPT !.train_data = Some(read_csv(Get(file)))], <<>>)
          ELSE Raise(r, "read_train_csv", ns[r])

\* file_loc = os.path.join(preprocessing_path, 'XREP_test.csv')
\* test_data = pd.read_csv(file_loc, encoding='utf-8', sep=';', low_memory=False)
ReadTestCsv(r) ==
    /\ pc[r] = "read_test_csv"
    /\ LET file == fs[join(preprocessing_path(r), "XREP_test.csv")]
       IN IF IsSome(file)
          THEN Complete(r, "read_test_csv",
                        [ns[r] EXCEPT !.test_data = Some(read_csv(Get(file)))], <<>>)
          ELSE Raise(r, "read_test_csv", ns[r])

\* trainer = ModelTraining(device=cnf.ML_DEVICE, seed=cnf.seed)
InitTrainer(r) ==
    Complete(r, "ModelTraining", [ns[r] EXCEPT !.trainer = Some("ModelTraining")], <<>>)

\* train_generator = DataGenerator(train_data, cnf.BATCH_SIZE, cnf.IMG_SHAPE, ...)
TrainGenerator(r) ==
    Complete(r, "train_generator",
             [ns[r] EXCEPT !.train_generator =
                 Some(DataGenerator(Get(ns[r].train_data), cnf[r].BATCH_SIZE))],
             <<>>)

\* test_generator = DataGenerator(test_data, cnf.BATCH_SIZE, cnf.IMG_SHAPE, ...)
TestGenerator(r) ==
    Complete(r, "test_generator",
             [ns[r] EXCEPT !.test_generator =
                 Some(DataGenerator(Get(ns[r].test_data), cnf[r].BATCH_SIZE))],
             <<>>)

\* datamaker = TensorDataSet()
InitDatamaker(r) ==
    Complete(r, "TensorDataSet", [ns[r] EXCEPT !.datamaker = Some("TensorDataSet")], <<>>)

\* train_dataset = datamaker.create_tf_dataset(train_generator)
TrainDataset(r) ==
    Complete(r, "train_dataset",
             [ns[r] EXCEPT !.train_dataset =
                 Some(create_tf_dataset(Get(ns[r].train_generator)))],
             <<>>)

\* test_dataset = datamaker.create_tf_dataset(test_generator)
TestDataset(r) ==
    Complete(r, "test_dataset",
             [ns[r] EXCEPT !.test_dataset =
                 Some(create_tf_dataset(Get(ns[r].test_generator)))],
             <<>>)

\* The row count of the train frame taken for the test frame's.
num_test_samples_of_train(r) == Len(Get(ns[r].train_data))

\* num_train_samples = train_data.shape[0]
num_train_samples(r) == Len(Get(ns[r].train_data))

\* num_test_samples = test_data.shape[0]
num_test_samples(r) == Len(Get(ns[r].test_data))

\* The evaluation report: the two sample counts, then cnf.BATCH_SIZE and
\* cnf.EPOCHS, printed in one f-string.
PrintReport(r) ==
    /\ pc[r] = "report"
    /\ LET ntrain == num_train_samples(r)
           ntest == num_test_samples(r)
       IN Complete(r, "report",
                   [ns[r] EXCEPT !.num_train_samples = Some(ntrain),
                                 !.num_test_samples = Some(ntest)],
                   <<[print |-> "report",
                      value |-> [num_train_samples |-> ntrain,
                                 num_test_samples |-> ntest,
                                 batch_size |-> cnf[r].BATCH_SIZE,
                                 epochs |-> cnf[r].EPOCHS]]>>)

NextEvaluation ==
    \E r \in Runs :
        \/ StartRun(r)
        \/ LoadPretrainedModel(r)
        \/ ModelSummary(r)
        \/ ReadTrainCsv(r)
        \/ ReadTestCsv(r)
        \/ InitTrainer(r)
        \/ TrainGenerator(r)
        \/ TestGenerator(r)
        \/ InitDatamaker(r)
        \/ TrainDataset(r)
        \/ TestDataset(r)
        \/ PrintReport(r)

Next ==
    \E r \in Runs :
        \/ StartRun(r)
        \/ ReadDatasetCsv(r)
        \/ FindImagesPath(r)
        \/ SampleSubset(r)
        \/ TextAnalysis(r)
        \/ PixelIntensity(r)
        \/ LoadPretrainedModel(r)
        \/ ModelSummary(r)
        \/ ReadTrainCsv(r)
        \/ ReadTestCsv(r)
        \/ InitTrainer(r)
        \/ TrainGenerator(r)
        \/ TestGenerator(r)
        \/ InitDatamaker(r)
        \/ TrainDataset(r)
        \/ TestDataset(r)
        \/ PrintReport(r)

Spec == Init /\ [][Next]_vars

\* The evaluation notebook alone; the kernel runs every cell it is given.
InitEvaluation == Init /\ notebook = "evaluation"

SpecEvaluation ==
    InitEvaluation /\ [][NextEvaluation]_vars /\ WF_vars(NextEvaluation)

\* ================================================================ claims
Printed(r, what) == { k \in 1..Len(console[r]) : console[r][k].print = what }
Sampled(r) == IsSome(ns[r].subset)
HasWords(r) == IsSome(ns[r].words_list)
Ran(r, step) == \E k \in 1..Len(executed[r]) : executed[r][k] = step
FrameLen(r) == Len(Get(ns[r].dataset))

WordStarts(s) ==
    { i \in 1..Len(s) : ~IsSpace(s[i]) /\ (i = 1 \/ IsSpace(s[i - 1])) }
WordCount(s) == Cardinality(WordStarts(s))

RECURSIVE SumWordCounts(_, _)
SumWordCounts(lines, n) ==
    IF n = 0 THEN 0 ELSE SumWordCounts(lines, n - 1) + WordCount(lines[n].text)

\* C2: once the text-analysis cell has run on a dataset of N rows, words_list
\* holds as many words as the rows' word counts add up to, a row whose text is
\* empty or only whitespace counting zero.
C2_WordsListLengthIsSumOfWordCounts ==
    \A r \in Runs :
        Ran(r, "text_analysis") =>
            /\ HasWords(r)
            /\ Len(Get(ns[r].words_list))
                 = SumWordCounts(Get(fs[DatasetFile]), Len(Get(fs[DatasetFile])))

\* The same count, for the runs in which the cell did build words_list.
C2_LengthWhenBuilt ==
    \A r \in Runs :
        HasWords(r) =>
            Len(Get(ns[r].words_list))
              = SumWordCounts(Get(fs[DatasetFile]), Len(Get(fs[DatasetFile])))

\* The words of every row of a frame, row after row.
AllWords(df) == Flatten([k \in 1..Len(df) |-> split(df[k].text.str)])

\* C7: words_list is computed from every row of the whole loaded dataset, not
\* from the sampled subset: it is the words of all rows, and two runs on the
\* same dataset agree on it whatever their seeds and sample counts.
C7_WordsFromWholeDataset ==
    /\ \A r \in Runs :
          HasWords(r) =>
              /\ Len(Get(ns[r].total_text)) = FrameLen(r)
              /\ Get(ns[r].words_list) = AllWords(Get(ns[r].dataset))
    /\ \A r1 \in Runs, r2 \in Runs :
          (HasWords(r1) /\ HasWords(r2) /\ ns[r1].dataset = ns[r2].dataset)
          => ns[r1].words_list = ns[r2].words_list

\* Two runs with different seeds and different sample counts, each sampling a
\* proper part of a dataset that has words.
C7_Witness ==
    /\ HasWords(1) /\ HasWords(2)
    /\ cnf[1].SEED # cnf[2].SEED
    /\ ns[1].total_samples # ns[2].total_samples
    /\ Len(Get(ns[1].subset)) < FrameLen(1)
    /\ Len(Get(ns[2].subset)) < FrameLen(2)
    /\ Len(Get(ns[1].words_list)) >= 2

\* C8: with at least TRAIN_SAMPLES + TEST_SAMPLES rows in the dataset the subset
\* has exactly that many rows, each a row of the dataset and none taken twice;
\* with fewer rows the sampling step fails and no subset is bound.
C8_SubsetExactOrFails ==
    \A r \in Runs :
        Ran(r, "sample") =>
            LET n == cnf[r].TRAIN_SAMPLES + cnf[r].TEST_SAMPLES
                df == Get(ns[r].dataset)
            IN IF n <= Len(df)
               THEN /\ Sampled(r)
                    /\ LET sub == Get(ns[r].subset)
                       IN /\ Len(sub) = n
                          /\ \A k \in 1..n : \E j \in 1..Len(df) : sub[k] = df[j]
                          /\ \A k1 \in 1..n, k2 \in 1..n :
                                k1 # k2 => sub[k1].index # sub[k2].index
               ELSE /\ ~Sampled(r)
                    /\ pc[r] = "failed"
                    /\ failedAt[r] = "sample"

\* A sample of two or more rows taken from a larger dataset.
C8_Witness ==
    \E r \in Runs :
        /\ Sampled(r)
        /\ Len(Get(ns[r].subset)) >= 2
        /\ Len(Get(ns[r].subset)) < FrameLen(r)

\* The number of words in the rows before row i.
RECURSIVE WordsBefore(_, _)
WordsBefore(df, i) ==
    IF i <= 1 THEN 0
    ELSE WordsBefore(df, i - 1) + Len(split(df[i - 1].text.str))

\* C10: words_list is the rows' words in dataset row order, each row's words in
\* their order within the row: word k of row i sits at position (number of
\* words in the rows before i) + k, and nothing else is in the list.
C10_FlattenKeepsOrder ==
    \A r \in Runs :
        HasWords(r) =>
            LET df == Get(ns[r].dataset)
                words == Get(ns[r].words_list)
            IN /\ Len(words) = WordsBefore(df, Len(df) + 1)
               /\ \A i \in 1..Len(df) :
                     LET row == split(df[i].text.str)
                     IN \A k \in 1..Len(row) :
                           words[WordsBefore(df, i) + k] = row[k]

\* Words from two rows or more, the rows differing in their words.
C10_Witness ==
    \E r \in Runs :
        /\ HasWords(r)
        /\ FrameLen(r) >= 2
        /\ \E i \in 1..FrameLen(r), j \in 1..FrameLen(r) :
              /\ i < j
              /\ Len(split(Get(ns[r].dataset)[i].text.str)) >= 2
              /\ Len(split(Get(ns[r].dataset)[j].text.str)) >= 1
              /\ split(Get(ns[r].dataset)[i].text.str)
                   # split(Get(ns[r].dataset)[j].text.str)

\* The evaluation report a run printed, when it printed one.
ReportPrinted(r) == Printed(r, "report") # {}
Report(r) == console[r][CHOOSE k \in Printed(r, "report") : TRUE].value

\* C3: the batch size and the epoch count printed in the evaluation report are
\* those of the parameters record load_pretrained_model returned for the
\* loaded checkpoint.
C3_ReportMatchesLoadedParameters ==
    \A r \in Runs :
        ReportPrinted(r) =>
            /\ Report(r).batch_size = Get(ns[r].parameters).batch_size
            /\ Report(r).epochs = Get(ns[r].parameters).epochs

\* The statements of a run that completed: all it executed but the one that raised.
Completed(r) ==
    { executed[r][k] : k \in 1..Len(executed[r]) } \ {failedAt[r]}
PositionOf(r, step) == CHOOSE k \in 1..Len(executed[r]) : executed[r][k] = step

\* Statement b completed only after statement a had.
Precedes(r, a, b) ==
    b \in Completed(r) =>
        /\ a \in Completed(r)
        /\ PositionOf(r, a) < PositionOf(r, b)

EvaluationOrderInv ==
    \A r \in Runs :
        notebook = "evaluation" =>
            \* each step at most once
            /\ \A k1 \in 1..Len(executed[r]), k2 \in 1..Len(executed[r]) :
                  k1 # k2 => executed[r][k1] # executed[r][k2]
            \* the model and its parameters before the CSVs
            /\ Precedes(r, "load_pretrained_model", "read_train_csv")
            /\ Precedes(r, "load_pretrained_model", "read_test_csv")
            \* both CSVs before either generator
            /\ \A csv \in {"read_train_csv", "read_test_csv"},
                  gen \in {"train_generator", "test_generator"} :
                  Precedes(r, csv, gen)
            \* both generators before either dataset
            /\ \A gen \in {"train_generator", "test_generator"},
                  ds \in {"train_dataset", "test_dataset"} :
                  Precedes(r, gen, ds)
            \* the report after all of these
            /\ \A step \in {"load_pretrained_model", "read_train_csv", "read_test_csv",
                            "train_generator", "test_generator",
                            "train_dataset", "test_dataset"} :
                  Precedes(r, step, "report")
            /\ ReportPrinted(r) => "report" \in Completed(r)
            /\ Cardinality(Printed(r, "report")) <= 1
            \* a finished run takes no further step
            /\ pc[r] = "done" => ReportPrinted(r)
            /\ Ended(1) => ~ENABLED NextEvaluation

\* Every file the evaluation reads is there: no step has a reason to fail.
EvaluationCanSucceed ==
    /\ notebook = "evaluation"
    /\ pc[1] = "idle"
    /\ \A p \in {WeightsFile, ParametersFile, TrainFile, TestFile} : IsSome(fs[p])

\* C4: the evaluation flow runs its steps in one fixed order, each at most
\* once: model and parameters, then the train and test CSVs, then both
\* generators, then both datasets, then the report; and when every step
\* succeeds the run reaches the printed report and ends there.
C4_EvaluationRunsInOrder ==
    /\ []EvaluationOrderInv
    /\ EvaluationCanSucceed ~> (pc[1] = "done" /\ ReportPrinted(1))

\* A run that went through all eleven statements and printed the report.
C4_Witness ==
    /\ notebook = "evaluation"
    /\ pc[1] = "done"
    /\ ReportPrinted(1)
    /\ Len(executed[1]) = Len(EvaluationSteps)

\* C5: no step of either flow writes to persistent storage: the dataset CSV,
\* the image directory and the checkpoint directory (weights, parameters,
\* preprocessing CSVs) are the same after every step; output goes to the console.
C5_StorageUnchanged == [][fs' = fs]_vars

\* A run that went to its end and printed its output.
C5_Witness ==
    \E r \in Runs : pc[r] = "done" /\ console[r] # <<>>

\* What a run binds in the statement that can raise.
BoundBy(r, step) ==
    CASE step = "read_csv" -> IsSome(ns[r].dataset)
      [] step = "sample" -> IsSome(ns[r].subset)
      [] step = "text_analysis" -> IsSome(ns[r].words_list)
      [] step = "load_pretrained_model" ->
            IsSome(ns[r].model) \/ IsSome(ns[r].parameters) \/ IsSome(ns[r].model_path)
      [] step = "read_train_csv" -> IsSome(ns[r].train_data)
      [] step = "read_test_csv" -> IsSome(ns[r].test_data)
      [] OTHER -> FALSE

\* The file a reading statement needs is not there.
MissingFor(step) ==
    CASE step = "read_csv" -> ~IsSome(fs[DatasetFile])
      [] step = "load_pretrained_model" ->
            ~IsSome(fs[WeightsFile]) \/ ~IsSome(fs[ParametersFile])
      [] step = "read_train_csv" -> ~IsSome(fs[TrainFile])
      [] step = "read_test_csv" -> ~IsSome(fs[TestFile])
      [] OTHER -> FALSE

FailureInv ==
    \A r \in Runs :
        \* a read of a missing file is a failure of that statement
        /\ \A step \in {"read_csv", "load_pretrained_model",
                        "read_train_csv", "read_test_csv"} :
              (Ran(r, step) /\ MissingFor(step)) => failedAt[r] = step
        /\ failedAt[r] # "none" =>
              \* the run is over, the failing statement being its last
              /\ pc[r] = "failed"
              /\ executed[r][Len(executed[r])] = failedAt[r]
              \* executed once: not retried
              /\ Cardinality(
                    { k \in 1..Len(executed[r]) : executed[r][k] = failedAt[r] }) = 1
              \* nothing stands in for the value the statement did not produce
              /\ ~BoundBy(r, failedAt[r])
              \* the evaluation report is not printed
              /\ ~ReportPrinted(r)

FailureStep ==
    \A r \in Runs :
        pc[r] = "failed" =>
            /\ pc'[r] = "failed"
            /\ failedAt'[r] = failedAt[r]
            /\ executed'[r] = executed[r]
            /\ ns'[r] = ns[r]
            /\ console'[r] = console[r]

\* C6: a failure of a file read or external call ends the run: the failing
\* step is not retried, no later step of the flow executes, the evaluation
\* report is not printed after a failed checkpoint load or CSV read, and no
\* substitute value is bound.
C6_FailureEndsRun == []FailureInv /\ [][FailureStep]_vars

\* The test CSV is missing: the model summary was printed, the report was not.
C6_Witness ==
    /\ notebook = "evaluation"
    /\ failedAt[1] = "read_test_csv"
    /\ IsSome(ns[1].train_data)
    /\ Printed(1, "model_summary") # {}

\* C9: the train and test sample counts printed in the evaluation report are
\* the row counts of XREP_train.csv and XREP_test.csv in the loaded model's
\* preprocessing folder, and building the generators and datasets leaves the
\* rows of train_data and test_data as they were read.
C9_ReportCountsAreCsvRows ==
    \A r \in Runs :
        /\ IsSome(ns[r].train_data) =>
              ns[r].train_data = Some(read_csv(Get(fs[TrainFile])))
        /\ IsSome(ns[r].test_data) =>
              ns[r].test_data = Some(read_csv(Get(fs[TestFile])))
        /\ ReportPrinted(r) =>
              /\ Report(r).num_train_samples = Len(Get(fs[TrainFile]))
              /\ Report(r).num_test_samples = Len(Get(fs[TestFile]))

\* A report over a train file and a test file of different, non-zero sizes.
C9_Witness ==
    \E r \in Runs :
        /\ ReportPrinted(r)
        /\ IsSome(ns[r].train_dataset) /\ IsSome(ns[r].test_dataset)
        /\ Report(r).num_train_samples > Report(r).num_test_samples
        /\ Report(r).num_test_samples > 0
=============================================================================
